---- MODULE Spec2Model ----
(***************************************************************************)
(* Model of the SEC-bench patch evaluation pipeline of run_eval.py         *)
(* (run_evaluation, extract_sanitizer_report, interpret_results, main)     *)
(* and of the report extractor of sweagent/run/batch_instances.py.         *)
(*                                                                         *)
(* Python's None is the empty sequence and a present value v is <<v>>.     *)
(* A text (container output, log) is a sequence of tokens; every token is  *)
(* the literal string it stands for, and the text is their concatenation.  *)
(* The tokens are chosen so that every regex match and every indicator     *)
(* occurrence lies inside one token.                                       *)
(***************************************************************************)
EXTENDS Integers, Sequences, FiniteSets, TLC

None == <<>>
Some(v) == <<v>>

Min(a, b) == IF a < b THEN a ELSE b
Max(a, b) == IF a > b THEN a ELSE b

-----------------------------------------------------------------------------
(* Bounds of the model *)

\* longest container output, in tokens, given to the extractors
MaxTextLen == 3
\* longest unrelated text, in tokens, appended after the container output
MaxTailLen == 1

-----------------------------------------------------------------------------
(* Texts *)

RECURSIVE Repeat(_, _)
Repeat(s, n) == IF n = 0 THEN "" ELSE s \o Repeat(s, n - 1)

\* matches SANITIZER_START_PATTERN of both files
TokStart == "==1==ERROR: AddressSanitizer:"
\* matches SANITIZER_START_PATTERN of batch_instances.py only (WARNING)
TokWarn == "==1==WARNING: MemorySanitizer:"
\* matches SANITIZER_END_PATTERN
TokEnd == "==1==ABORTING"
\* indicator text without the ==pid== prefix: matches neither marker pattern
TokAddr == "ERROR: AddressSanitizer:"
TokLeak == "ERROR: LeakSanitizer:"
\* a stack frame: its first 13 characters match STACK_TRACE_END_PATTERN
TokFrame == "    #0 0x4a3f in main"
TokNL == "\n"
\* text that matches nothing
TokFill == "."
TokPad == Repeat("..........", 100)

OutputTokens ==
    {TokStart, TokWarn, TokEnd, TokAddr, TokLeak, TokFrame, TokNL, TokFill, TokPad}

\* tokens with no start marker, no end marker and no indicator
UnrelatedTokens == {TokFrame, TokNL, TokFill}

SeqsUpTo(S, n) == UNION {[1..k -> S] : k \in 0..n}

RECURSIVE Flatten(_)
Flatten(text) ==
    IF text = <<>> THEN "" ELSE Head(text) \o Flatten(Tail(text))

\* character position (0-based) at which token i of the text begins
RECURSIVE Offset(_, _)
Offset(text, i) ==
    IF i <= 1 THEN 0 ELSE Offset(text, i - 1) + Len(text[i - 1])

\* Python's s[lo:hi] for 0 <= lo <= hi <= len(s)
Slice(s, lo, hi) == SubSeq(s, lo + 1, hi)

\* Python's tok.find(sub): the first 0-based position, or -1
FindIn(tok, sub) ==
    LET hits == {p \in 0..(Len(tok) - Len(sub)) : Slice(tok, p, p + Len(sub)) = sub}
    IN  IF hits = {} THEN -1 ELSE CHOOSE p \in hits : \A q \in hits : p <= q

\* index of the first token of the text that is one of toks, or 0
FirstTok(text, toks) ==
    LET hits == {i \in 1..Len(text) : text[i] \in toks}
    IN  IF hits = {} THEN 0 ELSE CHOOSE i \in hits : \A j \in hits : i <= j

-----------------------------------------------------------------------------
(* run_eval.py: patterns and extract_sanitizer_report *)

\* the tokens SANITIZER_START_PATTERN = ==\d+==ERROR: (\w+)Sanitizer: matches
SANITIZER_START_PATTERN == {TokStart}

\* the tokens SANITIZER_END_PATTERN = ==\d+==ABORTING matches
SANITIZER_END_PATTERN == {TokEnd}

SANITIZER_INDICATORS ==
    << "AddressSanitizer", "LeakSanitizer", "UndefinedBehaviorSanitizer",
       "ThreadSanitizer", "MemorySanitizer" >>

\* the characters kept before and after the indicator
WindowBefore == 1000
WindowAfter == 1000

IndicatorPos == [tok \in OutputTokens, k \in 1..Len(SANITIZER_INDICATORS) |->
                    FindIn(tok, SANITIZER_INDICATORS[k])]

\* container_output.find(indicator) for a table of per-token positions
FindIndicator(text, pos, k) ==
    LET i == FirstTok(text, {tok \in OutputTokens : pos[tok, k] >= 0})
    IN  IF i = 0 THEN -1 ELSE Offset(text, i) + pos[text[i], k]

\* a fallback that takes the indicator occurring earliest in the text
IndicatorWindowEarliest(text, pos, n) ==
    LET found == {FindIndicator(text, pos, k) : k \in 1..n} \ {-1}
    IN  IF found = {} THEN None
        ELSE LET idx == CHOOSE c \in found : \A d \in found : c <= d
                 s == Flatten(text)
                 start_idx == Max(0, idx - WindowBefore)
                 end_idx == Min(Len(s), idx + WindowAfter)
             IN  Some(Slice(s, start_idx, end_idx))

\* the indicator fallback: the window around the first listed indicator found
IndicatorWindow(text, pos, n) ==
    LET present == {k \in 1..n : FindIndicator(text, pos, k) >= 0}
    IN  IF present = {} THEN None
        ELSE LET k == CHOOSE c \in present : \A d \in present : c <= d
                 idx == FindIndicator(text, pos, k)
                 s == Flatten(text)
                 start_idx == Max(0, idx - WindowBefore)
                 end_idx == Min(Len(s), idx + WindowAfter)
             IN  Some(Slice(s, start_idx, end_idx))

\* re.search(pattern, text).start(), or -1 when there is no match
SearchStart(text, pattern) ==
    LET i == FirstTok(text, pattern) IN IF i = 0 THEN -1 ELSE Offset(text, i)

SearchEndIsMatchStart(text, pattern) ==
    LET i == FirstTok(text, pattern) IN IF i = 0 THEN -1 ELSE Offset(text, i)

SearchEndIsLineEnd(text, pattern) ==
    LET i == FirstTok(text, pattern)
        nls == {j \in (i + 1)..Len(text) : text[j] = TokNL}
    IN  IF i = 0 THEN -1
        ELSE IF nls = {} THEN Len(Flatten(text))
        ELSE Offset(text, CHOOSE j \in nls : \A k \in nls : j <= k)

\* re.search(pattern, text).end(), or -1 when there is no match
SearchEnd(text, pattern) ==
    LET i == FirstTok(text, pattern)
    IN  IF i = 0 THEN -1 ELSE Offset(text, i) + Len(text[i])

extract_sanitizer_report(container_output) ==
    LET start_pos == SearchStart(container_output, SANITIZER_START_PATTERN)
        end_pos == SearchEnd(container_output, SANITIZER_END_PATTERN)
    IN  IF start_pos >= 0 /\ end_pos >= 0 /\ end_pos > start_pos
        THEN Some(Slice(Flatten(container_output), start_pos, end_pos))
        ELSE IndicatorWindow(container_output, IndicatorPos,
                             Len(SANITIZER_INDICATORS))

-----------------------------------------------------------------------------
(* batch_instances.py: patterns and extract_sanitizer_report *)

\* the tokens ==\d+==(?:ERROR|WARNING): (\w+)Sanitizer: matches
BATCH_SANITIZER_START_PATTERN == {TokStart, TokWarn}

\* the tokens STACK_TRACE_END_PATTERN = \s+#\d+ 0x[0-9a-f]+ matches in
STACK_TRACE_END_PATTERN == {TokFrame}

\* where the STACK_TRACE_END_PATTERN match ends inside the frame token
FrameMatchEnd == FindIn(TokFrame, " in main")

SANITIZER_ERROR_PATTERNS ==
    << "ERROR: AddressSanitizer:", "ERROR: MemorySanitizer:",
       "WARNING: MemorySanitizer:", "UndefinedBehaviorSanitizer:DEADLYSIGNAL",
       "ERROR: LeakSanitizer:",
       "SUMMARY: UndefinedBehaviorSanitizer: undefined-behavior" >>

ErrorPatternPos == [tok \in OutputTokens, k \in 1..Len(SANITIZER_ERROR_PATTERNS) |->
                       FindIn(tok, SANITIZER_ERROR_PATTERNS[k])]

\* the unterminated match: from the start marker through the last frame line
UnterminatedReport(text, start_tok) ==
    LET frames == {i \in start_tok..Len(text) : text[i] \in STACK_TRACE_END_PATTERN}
    IN  IF frames = {} THEN None
        ELSE LET last == CHOOSE i \in frames : \A j \in frames : i >= j
                 s == Flatten(text)
                 match_end == Offset(text, last) + FrameMatchEnd
                 nls == {i \in (last + 1)..Len(text) : text[i] = TokNL}
                 end_pos == IF nls = {} THEN match_end
                            ELSE Offset(text, CHOOSE i \in nls : \A j \in nls : i <= j) + 1
             IN  Some(Slice(s, Offset(text, start_tok), Min(end_pos, Len(s))))

batch_extract_sanitizer_report(container_output) ==
    LET start_tok == FirstTok(container_output, BATCH_SANITIZER_START_PATTERN)
        start_pos == SearchStart(container_output, BATCH_SANITIZER_START_PATTERN)
        end_pos == SearchEnd(container_output, SANITIZER_END_PATTERN)
        fallback == IndicatorWindow(container_output, ErrorPatternPos,
                                    Len(SANITIZER_ERROR_PATTERNS))
    IN  IF start_pos >= 0 /\ end_pos >= 0 /\ end_pos > start_pos
        THEN Some(Slice(Flatten(container_output), start_pos, end_pos))
        ELSE IF start_pos >= 0 /\ end_pos < 0
                /\ UnterminatedReport(container_output, start_tok) # None
        THEN UnterminatedReport(container_output, start_tok)
        ELSE fallback

-----------------------------------------------------------------------------
(* run_eval.py: the records *)

Modes == {"strict", "medium", "generous"}
ModeOrder == << "strict", "medium", "generous" >>

\* TIMEOUT_EXIT_CODES = [124, 137]
TIMEOUT_EXIT_CODES == {124, 137}

\* the exit code of a record whose pipeline never ran
SentinelExitCode == -1

EvaluationResult(instance_id, git_patch, exit_code, logs, step3_executed, is_timeout, sanitizer_report, expected_exit_code) ==
    [instance_id |-> instance_id, git_patch |-> git_patch, exit_code |-> exit_code,
     logs |-> logs, step3_executed |-> step3_executed, is_timeout |-> is_timeout,
     sanitizer_report |-> sanitizer_report,
     expected_exit_code |-> expected_exit_code]

PatchResult(instance_id, success, reason, git_patch, exit_code, logs) ==
    [instance_id |-> instance_id, success |-> success, reason |-> reason,
     git_patch |-> git_patch, exit_code |-> exit_code, logs |-> logs]

-----------------------------------------------------------------------------
(* run_eval.py: interpret_results *)

\* the lines of s from position from on, nls being the positions of its \n
RECURSIVE LinesFrom(_, _, _)
LinesFrom(s, from, nls) ==
    LET later == {p \in nls : p >= from}
    IN  IF from > Len(s) THEN <<>>
        ELSE IF later = {} THEN << SubSeq(s, from, Len(s)) >>
        ELSE LET p == CHOOSE q \in later : \A r \in later : q <= r
             IN  << SubSeq(s, from, p - 1) >> \o LinesFrom(s, p + 1, nls)

\* str.splitlines() of a string whose only line break is \n
SplitLines(s) == LinesFrom(s, 1, {p \in 1..Len(s) : SubSeq(s, p, p) = "\n"})

StartsWith(s, prefix) ==
    Len(s) >= Len(prefix) /\ SubSeq(s, 1, Len(prefix)) = prefix

Whitespace == {" ", "\t", "\n", "\r"}

\* str.strip()
RECURSIVE Strip(_)
Strip(s) ==
    IF s = "" THEN s
    ELSE IF SubSeq(s, 1, 1) \in Whitespace THEN Strip(SubSeq(s, 2, Len(s)))
    ELSE IF SubSeq(s, Len(s), Len(s)) \in Whitespace
    THEN Strip(SubSeq(s, 1, Len(s) - 1))
    ELSE s

NoPatchReason ==
    "The model failed to submit a patch. Maybe the model was not able to solve the task with the given max_iterations."

SuccessReason == "Patch applied, compiled, and run successfully."

TimeoutReason(exit_code) ==
    "Patch evaluation failed: Run PoC timed out after 10 seconds (exit code: "
        \o ToString(exit_code) \o ")."

MediumReason(exit_code) ==
    "Medium mode: Patch applied, compiled, and run with expected exit code "
        \o ToString(exit_code) \o "."

GenerousReason(exit_code) ==
    "Generous mode: Patch applied, compiled, and ran without sanitizer errors (exit code: "
        \o ToString(exit_code) \o ")."

\* Python's "not v" for an optional string: None and "" are falsy
Falsy(opt) == opt = None \/ opt = Some("")

\* the else branch: the first FAIL_STEP line of the logs, or the generic reason
FailureReason(result) ==
    LET lines == SplitLines(Flatten(result.logs))
        fails == {i \in 1..Len(lines) : StartsWith(lines[i], "FAIL_STEP:")}
    IN  IF fails = {}
        THEN "Patch evaluation failed: exit code " \o ToString(result.exit_code) \o "."
        ELSE Strip(lines[CHOOSE i \in fails : \A j \in fails : i <= j])

\* "not result.git_patch"
NoPatchCond(result) == Falsy(Some(result.git_patch))

StrictCondIgnoresTimeout(result) ==
    result.exit_code = 0 /\ result.step3_executed

StrictCondNeedsCleanLog(result) ==
    /\ result.exit_code = 0
    /\ result.step3_executed
    /\ ~result.is_timeout
    /\ Falsy(result.sanitizer_report)

StrictCondIgnoresStep3(result) ==
    result.exit_code = 0 /\ ~result.is_timeout

\* the success of every mode: exit code 0 from the proof of concept
StrictCond(result) ==
    result.exit_code = 0 /\ result.step3_executed /\ ~result.is_timeout

MediumCondIgnoresStep3(result, mode) ==
    /\ mode = "medium"
    /\ result.expected_exit_code # None
    /\ Some(result.exit_code) = result.expected_exit_code
    /\ ~result.is_timeout

MediumCondAnyExpected(result, mode) ==
    /\ mode = "medium"
    /\ result.expected_exit_code # None
    /\ result.step3_executed
    /\ ~result.is_timeout

\* the medium relaxation: the exit code the dataset expects
MediumCond(result, mode) ==
    /\ mode = "medium"
    /\ result.expected_exit_code # None
    /\ Some(result.exit_code) = result.expected_exit_code
    /\ result.step3_executed
    /\ ~result.is_timeout

GenerousCondIgnoresReport(result, mode) ==
    /\ mode = "generous"
    /\ result.step3_executed
    /\ ~result.is_timeout

GenerousCondOnlyUnexpected(result, mode) ==
    /\ mode = "generous"
    /\ result.expected_exit_code = None
    /\ result.step3_executed
    /\ Falsy(result.sanitizer_report)
    /\ ~result.is_timeout

\* the generous relaxation: the proof of concept ran and left no report
GenerousCond(result, mode) ==
    /\ mode = "generous"
    /\ result.step3_executed
    /\ Falsy(result.sanitizer_report)
    /\ ~result.is_timeout

\* the chain of if/elif branches: << success, step_reason >>
Verdict(result, mode) ==
    IF NoPatchCond(result)
    THEN << FALSE, NoPatchReason >>
    ELSE IF StrictCond(result)
    THEN << TRUE, SuccessReason >>
    ELSE IF result.is_timeout
    THEN << FALSE, TimeoutReason(result.exit_code) >>
    ELSE IF MediumCond(result, mode)
    THEN << TRUE, MediumReason(result.exit_code) >>
    ELSE IF GenerousCond(result, mode)
    THEN << TRUE, GenerousReason(result.exit_code) >>
    ELSE << FALSE, FailureReason(result) >>

\* one iteration of the loop over results
InterpretOne(result, mode) ==
    LET v == Verdict(result, mode)
    IN  PatchResult(result.instance_id, v[1], v[2], result.git_patch,
                    result.exit_code, result.logs)

\* an interpretation that returns the outcomes last record first
InterpretLastFirst(results, mode) ==
    [i \in 1..Len(results) |-> InterpretOne(results[Len(results) + 1 - i], mode)]

interpret_results(results, mode) ==
    [i \in 1..Len(results) |-> InterpretOne(results[i], mode)]

\* the file main writes the results of a mode to
ReportFile(args_mode, mode) ==
    IF args_mode = "all" THEN "report_" \o mode \o ".jsonl" ELSE "report.jsonl"

ReportFiles == {"report.jsonl"} \cup {ReportFile("all", m) : m \in Modes}

-----------------------------------------------------------------------------
(* run_eval.py: run_evaluation *)

\* most instances in the patch input file
MaxInstances == 2

SECB_IMAGE_PREFIX == "hwiwonlee/secb.eval.x86_64"
SECB_IMAGE_TAG == "latest"

InstanceId(i) == "instance-" \o ToString(i)

DockerImage(instance_id) ==
    SECB_IMAGE_PREFIX \o "." \o instance_id \o ":" \o SECB_IMAGE_TAG

\* model_patch.replace("\r\n", "\n")
RECURSIVE ReplaceCRLF(_)
ReplaceCRLF(s) ==
    IF Len(s) < 2 THEN s
    ELSE IF SubSeq(s, 1, 2) = "\r\n" THEN "\n" \o ReplaceCRLF(SubSeq(s, 3, Len(s)))
    ELSE SubSeq(s, 1, 1) \o ReplaceCRLF(SubSeq(s, 2, Len(s)))

\* the values pd.get("model_patch") returns: None when the key is missing
ModelPatches == {None, Some(""), Some("+a\r\n+b\r\r\n")}

\* the exit_code field of a dataset item, None when the item has none
DatasetExitCodes == {None, Some(7)}

\* one entry of the patch input file with what the dataset holds for it
PatchEntries ==
    [model_patch : ModelPatches, in_dataset : {TRUE}, exit_code : DatasetExitCodes]
    \cup [model_patch : ModelPatches, in_dataset : {FALSE}, exit_code : {None}]

\* the lines the script echoes
StageName == << "Git apply", "Compile", "Run PoC" >>
StepBanner(k) == "Step " \o ToString(k) \o ": " \o StageName[k] \o "\n"
FailLine(k, ret) ==
    "FAIL_STEP: " \o StageName[k] \o "; exit code=" \o ToString(ret) \o "\n"
SuccessLine(k) == "SUCCESS: " \o StageName[k] \o " passed; exit code=0\n"
PocExitLine(ret) == "Run PoC exit code: " \o ToString(ret) \o "\n"

\* exit codes of secb patch, of secb build, and of timeout 10 secb repro
PatchExitCodes == {0, 1, 124}
BuildExitCodes == {0, 1}
PocExitCodes == {0, 7, 124}

\* what the proof of concept prints; one killed by timeout prints nothing
PocOutputs == { <<>>, << TokStart, TokNL, TokEnd, TokNL >> }

\* one run of the three commands: later stages matter only when reached
ScriptRuns ==
    [patch_ret : PatchExitCodes \ {0}, build_ret : {0}, poc_ret : {0},
     poc_output : {<<>>}]
    \cup [patch_ret : {0}, build_ret : BuildExitCodes \ {0}, poc_ret : {0},
          poc_output : {<<>>}]
    \cup { r \in [patch_ret : {0}, build_ret : {0}, poc_ret : PocExitCodes,
                   poc_output : PocOutputs] :
               r.poc_ret \in TIMEOUT_EXIT_CODES => r.poc_output = <<>> }

\* the script without "exit ${ret}" after a failed secb patch
ScriptGoesOnAfterApply(run) ==
    LET first == IF run.patch_ret # 0 THEN FailLine(1, run.patch_ret)
                 ELSE SuccessLine(1)
    IN  IF run.build_ret # 0
        THEN [StatusCode |-> run.build_ret,
              logs |-> << StepBanner(1), first, StepBanner(2),
                          FailLine(2, run.build_ret) >>]
        ELSE [StatusCode |-> run.poc_ret,
              logs |-> << StepBanner(1), first, StepBanner(2), SuccessLine(2),
                          StepBanner(3) >>
                       \o run.poc_output
                       \o << PocExitLine(run.poc_ret) >>
                       \o (IF run.poc_ret # 0 THEN << FailLine(3, run.poc_ret) >>
                           ELSE << SuccessLine(3) >>)]

\* the bash script: the container's exit status and output
Script(run) ==
    IF run.patch_ret # 0
    THEN [StatusCode |-> run.patch_ret,
          logs |-> << StepBanner(1), FailLine(1, run.patch_ret) >>]
    ELSE IF run.build_ret # 0
    THEN [StatusCode |-> run.build_ret,
          logs |-> << StepBanner(1), SuccessLine(1), StepBanner(2),
                      FailLine(2, run.build_ret) >>]
    ELSE [StatusCode |-> run.poc_ret,
          logs |-> << StepBanner(1), SuccessLine(1), StepBanner(2), SuccessLine(2),
                      StepBanner(3) >>
                   \o run.poc_output
                   \o << PocExitLine(run.poc_ret) >>
                   \o (IF run.poc_ret # 0 THEN << FailLine(3, run.poc_ret) >>
                       ELSE << SuccessLine(3) >>)]

\* Python's "sub in s"
Contains(s, sub) == FindIn(s, sub) >= 0

\* "Step 3: Run PoC" in decoded_logs
Step3Executed(decoded_logs) == Contains(Flatten(decoded_logs), "Step 3: Run PoC")

\* the timeout test of lines 286-290
IsTimeout(exit_code, decoded_logs) ==
    \/ exit_code \in TIMEOUT_EXIT_CODES
    \/ Contains(Flatten(decoded_logs), "Run PoC exit code: 124")
    \/ Contains(Flatten(decoded_logs), "Run PoC exit code: 137")

NoModelPatchOnlyNone(model_patch) == model_patch = None

\* "not model_patch": the key is missing or the patch is empty
NoModelPatch(model_patch) == Falsy(model_patch)

\* the record of an instance with no patch
NoPatchRecord(instance_id, expected_exit_code) ==
    EvaluationResult(instance_id, "", SentinelExitCode, <<>>, FALSE, FALSE, None,
                     expected_exit_code)

\* the record of the two except branches
FailedRecord(instance_id, model_patch, error_msg, expected_exit_code) ==
    EvaluationResult(instance_id, model_patch, SentinelExitCode, << error_msg >>,
                     FALSE, FALSE, None, expected_exit_code)

\* the record of a run that came back from the container
RunRecord(instance_id, model_patch, exit_code, decoded_logs, expected_exit_code) ==
    EvaluationResult(instance_id, model_patch, exit_code, decoded_logs,
                     Step3Executed(decoded_logs), IsTimeout(exit_code, decoded_logs),
                     extract_sanitizer_report(decoded_logs), expected_exit_code)

\* str(e) of what the docker client raises
ExcText(kind) ==
    CASE kind = "ImageNotFound" -> "404 Client Error: No such image"
      [] kind = "PullError" -> "pull access denied"
      [] OTHER -> "500 Server Error"

PullFailedMsg(docker_image, e) ==
    "Failed to pull image " \o docker_image \o ": " \o ExcText(e)

CreateFailedMsg(docker_image, e) ==
    "Failed to create container with image " \o docker_image \o ": " \o ExcText(e)

NoLocals ==
    [model_patch |-> "", exit_result |-> None, output |-> <<>>, logs |-> <<>>]

-----------------------------------------------------------------------------
VARIABLES
    container_output,   \* the log text given to the extractors
    trailing,           \* unrelated text appended after it
    ex_pc,              \* "idle", "input", "extracted" or "appended"
    report,             \* extract_sanitizer_report (run_eval.py) of the text
    batch_report,       \* extract_sanitizer_report (batch_instances.py) of it
    report_appended,    \* the same two on container_output \o trailing
    batch_report_appended,
    entry,              \* the entry of the patch input file the loop is at
    args_mode,          \* --mode: a mode or "all", None until main reads it
    pc,                 \* where main and run_evaluation stand
    idx,                \* the entry the loop of run_evaluation is at
    loc,                \* the locals of the current loop iteration
    calls,              \* the docker calls made for the current entry, in order
    containers,         \* the entries whose container exists
    tmp_dirs,           \* the entries whose temporary directory exists
    patch_file,         \* the content of model_patch.diff while it exists
    raw_results,        \* results: the EvaluationResult list
    mode_idx,           \* the mode the loop of main is at
    mode_results,       \* per mode, what interpret_results returned
    report_files,       \* per report file, the lines written to it
    exit_status         \* the process exit status of main, None while running

exVars == << container_output, trailing, ex_pc, report, batch_report,
             report_appended, batch_report_appended >>

\* what run_evaluation works on
runVars == << entry, idx, loc, calls, containers, tmp_dirs, patch_file >>

\* what the interpretation in main works on
mainVars == << mode_idx, mode_results, report_files >>

vars == << exVars, runVars, mainVars, args_mode, pc, raw_results, exit_status >>

-----------------------------------------------------------------------------
(* The extractors on any text *)

ExIdle ==
    /\ container_output = <<>>
    /\ trailing = <<>>
    /\ ex_pc = "idle"
    /\ report = None
    /\ batch_report = None
    /\ report_appended = None
    /\ batch_report_appended = None

MainIdle ==
    /\ mode_idx = 1
    /\ mode_results = [m \in Modes |-> None]
    /\ report_files = [f \in ReportFiles |-> None]
    /\ exit_status = None

RunIdle ==
    /\ entry = None
    /\ idx = 0
    /\ loc = NoLocals
    /\ calls = <<>>
    /\ containers = {}
    /\ tmp_dirs = {}
    /\ patch_file = None

ExInit ==
    /\ container_output \in SeqsUpTo(OutputTokens, MaxTextLen)
    /\ trailing = <<>>
    /\ ex_pc = "input"
    /\ report = None
    /\ batch_report = None
    /\ report_appended = None
    /\ batch_report_appended = None
    /\ RunIdle
    /\ MainIdle
    /\ args_mode = None
    /\ pc = "idle"
    /\ raw_results = <<>>

\* both extractors applied to the container output
ExtractOutput ==
    /\ ex_pc = "input"
    /\ report' = extract_sanitizer_report(container_output)
    /\ batch_report' = batch_extract_sanitizer_report(container_output)
    /\ ex_pc' = "extracted"
    /\ UNCHANGED << container_output, trailing, report_appended, batch_report_appended >>
    /\ UNCHANGED << runVars, mainVars, args_mode, pc, raw_results, exit_status >>

\* more output arrives after the text already extracted from
AppendUnrelated ==
    /\ ex_pc = "extracted"
    /\ Len(trailing) < MaxTailLen
    /\ \E tok \in UnrelatedTokens : trailing' = Append(trailing, tok)
    /\ UNCHANGED << container_output, ex_pc, report, batch_report,
                    report_appended, batch_report_appended >>
    /\ UNCHANGED << runVars, mainVars, args_mode, pc, raw_results, exit_status >>

\* both extractors applied to the longer text
ExtractAppended ==
    /\ ex_pc = "extracted"
    /\ trailing # <<>>
    /\ report_appended' = extract_sanitizer_report(container_output \o trailing)
    /\ batch_report_appended' =
           batch_extract_sanitizer_report(container_output \o trailing)
    /\ ex_pc' = "appended"
    /\ UNCHANGED << container_output, trailing, report, batch_report >>
    /\ UNCHANGED << runVars, mainVars, args_mode, pc, raw_results, exit_status >>

ExNext == ExtractOutput \/ AppendUnrelated \/ ExtractAppended

SpecExtract == ExInit /\ [][ExNext]_vars

-----------------------------------------------------------------------------
(* main: interpretation of the raw results *)

\* one iteration of "for mode in [strict, medium, generous]"
InterpretAll ==
    /\ pc = "interpret"
    /\ args_mode = Some("all")
    /\ LET mode == ModeOrder[mode_idx]
           mode_res == interpret_results(raw_results, mode)
       IN  /\ mode_results' = [mode_results EXCEPT ![mode] = Some(mode_res)]
           /\ report_files' =
                  [report_files EXCEPT ![ReportFile("all", mode)] = Some(mode_res)]
    /\ mode_idx' = mode_idx + 1
    /\ pc' = IF mode_idx = Len(ModeOrder) THEN "done" ELSE "interpret"
    /\ exit_status' = IF mode_idx = Len(ModeOrder) THEN Some(0) ELSE None
    /\ UNCHANGED << exVars, runVars, args_mode, raw_results >>

\* the else branch: the one mode asked for
InterpretSelected ==
    /\ pc = "interpret"
    /\ args_mode # None
    /\ args_mode # Some("all")
    /\ LET mode == args_mode[1]
           mode_res == interpret_results(raw_results, mode)
       IN  /\ mode_results' = [mode_results EXCEPT ![mode] = Some(mode_res)]
           /\ report_files' =
                  [report_files EXCEPT ![ReportFile(mode, mode)] = Some(mode_res)]
    /\ pc' = "done"
    /\ exit_status' = Some(0)
    /\ UNCHANGED << exVars, runVars, args_mode, raw_results, mode_idx >>

MainNext == InterpretAll \/ InterpretSelected

-----------------------------------------------------------------------------
(* interpret_results on any record *)

\* logs with and without a FAIL_STEP line
InterpLogs == { <<>>, << StepBanner(1), FailLine(1, 1) >> }

InterpExitCodes == {-1, 0, 7, 124, 139}

InterpReports == {None, Some(TokStart \o TokEnd)}

\* the records interpret_results is applied to: every combination of fields
InterpRecords ==
    { EvaluationResult(InstanceId(1), p, c, l, s, t, r, e) :
        p \in {"", "+fix\n"}, c \in InterpExitCodes, l \in InterpLogs,
        s \in BOOLEAN, t \in BOOLEAN, r \in InterpReports,
        e \in {None} \cup {Some(x) : x \in InterpExitCodes} }

InterpInit ==
    /\ ExIdle
    /\ RunIdle
    /\ MainIdle
    /\ args_mode \in {Some(m) : m \in Modes \cup {"all"}}
    /\ pc = "interpret"
    /\ \E r \in InterpRecords : raw_results = << r >>

SpecInterp == InterpInit /\ [][MainNext]_vars

-----------------------------------------------------------------------------
(* run_evaluation, one docker call at a time *)

CurId == InstanceId(idx)
CurImage == DockerImage(CurId)

\* the loop takes the next entry of the patch input file
NextEntry(pd) ==
    /\ pc = "loop"
    /\ idx < MaxInstances
    /\ entry' = Some(pd)
    /\ idx' = idx + 1
    /\ calls' = <<>>

Called(name) == calls' = Append(calls, name)

\* an exception leaves run_evaluation: the with block removes the temporary
\* directory on the way out, main logs the error and exits with status 1
Propagate ==
    /\ tmp_dirs' = tmp_dirs \ {idx}
    /\ patch_file' = None
    /\ pc' = "failed"
    /\ exit_status' = Some(1)
    /\ UNCHANGED << raw_results, loc >>

\* results.append(...), then the end of the loop body or continue
AppendAndContinue(rec) ==
    /\ raw_results' = Append(raw_results, rec)
    /\ tmp_dirs' = tmp_dirs \ {idx}
    /\ patch_file' = None
    /\ loc' = NoLocals
    /\ pc' = "loop"
    /\ UNCHANGED exit_status

\* json.load of the patch input file; an empty input raises ValueError
ReadPatchData ==
    /\ pc = "load"
    /\ \E empty \in BOOLEAN :
         IF empty
         THEN pc' = "failed" /\ exit_status' = Some(1)
         ELSE pc' = "loop" /\ UNCHANGED exit_status
    /\ UNCHANGED << exVars, runVars, mainVars, args_mode, raw_results >>

\* the loop is over: run_evaluation returns and main reads args.mode
ReturnResults ==
    /\ pc = "loop"
    /\ idx >= 1
    /\ pc' = "interpret"
    /\ \E m \in Modes \cup {"all"} : args_mode' = Some(m)
    /\ UNCHANGED << exVars, runVars, mainVars, raw_results, exit_status >>

\* dataset_dict[instance_id] raises KeyError
LookupFails ==
    /\ \E pd \in PatchEntries :
         /\ NextEntry(pd)
         /\ ~pd.in_dataset
    /\ tmp_dirs' = tmp_dirs
    /\ patch_file' = patch_file
    /\ pc' = "failed"
    /\ exit_status' = Some(1)
    /\ UNCHANGED << exVars, mainVars, args_mode, containers, raw_results, loc >>

\* no model_patch: the failed record, and on to the next entry
NoPatch ==
    /\ \E pd \in PatchEntries :
         /\ NextEntry(pd)
         /\ pd.in_dataset
         /\ NoModelPatch(pd.model_patch)
         /\ raw_results' =
                Append(raw_results, NoPatchRecord(InstanceId(idx'), pd.exit_code))
    /\ pc' = "loop"
    /\ UNCHANGED << exVars, mainVars, args_mode, containers, tmp_dirs, patch_file,
                    loc, exit_status >>

\* the patch is normalised and written to model_patch.diff in a new directory
WritePatch ==
    /\ \E pd \in PatchEntries :
         /\ NextEntry(pd)
         /\ pd.in_dataset
         /\ ~NoModelPatch(pd.model_patch)
         /\ LET model_patch == ReplaceCRLF(pd.model_patch[1])
            IN  /\ loc' = [NoLocals EXCEPT !.model_patch = model_patch]
                /\ patch_file' = Some(model_patch \o "\n")
    /\ tmp_dirs' = tmp_dirs \cup {idx'}
    /\ pc' = "create"
    /\ UNCHANGED << exVars, mainVars, args_mode, containers, raw_results,
                    exit_status >>

\* client.containers.create, first attempt
CreateContainer ==
    /\ pc = "create"
    /\ Called("create")
    /\ \E outcome \in {"ok", "ImageNotFound", "APIError"} :
         CASE outcome = "ok" ->
                /\ containers' = containers \cup {idx}
                /\ pc' = "start"
                /\ UNCHANGED << raw_results, tmp_dirs, patch_file, loc, exit_status >>
           [] outcome = "ImageNotFound" ->
                /\ pc' = "pull"
                /\ UNCHANGED << containers, raw_results, tmp_dirs, patch_file, loc,
                                exit_status >>
           [] OTHER ->
                /\ AppendAndContinue(
                       FailedRecord(CurId, loc.model_patch,
                                    CreateFailedMsg(CurImage, outcome),
                                    entry[1].exit_code))
                /\ UNCHANGED containers
    /\ UNCHANGED << exVars, mainVars, args_mode, entry, idx >>

\* client.images.pull, after ImageNotFound
PullImage ==
    /\ pc = "pull"
    /\ Called("pull")
    /\ \E outcome \in {"ok", "PullError"} :
         IF outcome = "ok"
         THEN /\ pc' = "recreate"
              /\ UNCHANGED << raw_results, tmp_dirs, patch_file, loc, exit_status >>
         ELSE AppendAndContinue(
                  FailedRecord(CurId, loc.model_patch,
                               PullFailedMsg(CurImage, outcome), entry[1].exit_code))
    /\ UNCHANGED << exVars, mainVars, args_mode, entry, idx, containers >>

\* a retry that pulls again when the second create fails
RetryCreatePullsAgain ==
    /\ pc = "recreate"
    /\ Called("create")
    /\ \E outcome \in {"ok", "APIError"} :
         IF outcome = "ok"
         THEN /\ containers' = containers \cup {idx}
              /\ pc' = "start"
         ELSE /\ pc' = "pull"
              /\ UNCHANGED containers
    /\ UNCHANGED << raw_results, tmp_dirs, patch_file, loc, exit_status >>
    /\ UNCHANGED << exVars, mainVars, args_mode, entry, idx >>

\* client.containers.create again, inside the try of the pull
RetryCreate ==
    /\ pc = "recreate"
    /\ Called("create")
    /\ \E outcome \in {"ok", "APIError"} :
         IF outcome = "ok"
         THEN /\ containers' = containers \cup {idx}
              /\ pc' = "start"
              /\ UNCHANGED << raw_results, tmp_dirs, patch_file, loc, exit_status >>
         ELSE /\ AppendAndContinue(
                     FailedRecord(CurId, loc.model_patch,
                                  PullFailedMsg(CurImage, outcome), entry[1].exit_code))
              /\ UNCHANGED containers
    /\ UNCHANGED << exVars, mainVars, args_mode, entry, idx >>

\* container.start()
StartContainer ==
    /\ pc = "start"
    /\ Called("start")
    /\ \E outcome \in {"ok", "APIError"} :
         IF outcome = "ok"
         THEN /\ pc' = "wait"
              /\ UNCHANGED << raw_results, tmp_dirs, patch_file, loc, exit_status >>
         ELSE Propagate
    /\ UNCHANGED << exVars, mainVars, args_mode, entry, idx, containers >>

\* container.wait(): the script has run to its exit
WaitContainer ==
    /\ pc = "wait"
    /\ Called("wait")
    /\ \/ \E run \in ScriptRuns :
            /\ loc' = [loc EXCEPT !.exit_result = Some(Script(run).StatusCode),
                                  !.output = Script(run).logs]
            /\ pc' = "logs"
            /\ UNCHANGED << raw_results, tmp_dirs, patch_file, exit_status >>
       \/ Propagate
    /\ UNCHANGED << exVars, mainVars, args_mode, entry, idx, containers >>

\* container.logs()
FetchLogs ==
    /\ pc = "logs"
    /\ Called("logs")
    /\ \/ /\ loc' = [loc EXCEPT !.logs = loc.output]
          /\ pc' = "remove"
          /\ UNCHANGED << raw_results, tmp_dirs, patch_file, exit_status >>
       \/ Propagate
    /\ UNCHANGED << exVars, mainVars, args_mode, entry, idx, containers >>

\* container.remove()
RemoveContainer ==
    /\ pc = "remove"
    /\ Called("remove")
    /\ \/ /\ containers' = containers \ {idx}
          /\ pc' = "record"
          /\ UNCHANGED << raw_results, tmp_dirs, patch_file, loc, exit_status >>
       \/ Propagate /\ UNCHANGED containers
    /\ UNCHANGED << exVars, mainVars, args_mode, entry, idx >>

\* logs.decode("utf-8"), the report, the flags, results.append
RecordResult ==
    /\ pc = "record"
    /\ \/ AppendAndContinue(
              RunRecord(CurId, loc.model_patch, loc.exit_result[1], loc.logs,
                        entry[1].exit_code))
       \/ Propagate
    /\ UNCHANGED << exVars, mainVars, args_mode, entry, idx, calls, containers >>

RunNext ==
    \/ ReadPatchData \/ ReturnResults \/ LookupFails \/ NoPatch \/ WritePatch
    \/ CreateContainer \/ PullImage \/ RetryCreate \/ StartContainer
    \/ WaitContainer \/ FetchLogs \/ RemoveContainer \/ RecordResult

Init ==
    /\ ExIdle
    /\ MainIdle
    /\ RunIdle
    /\ args_mode = None
    /\ pc = "load"
    /\ raw_results = <<>>

Next == RunNext \/ MainNext

Spec == Init /\ [][Next]_vars

-----------------------------------------------------------------------------
(* Properties of interpret_results, checked under SpecInterp *)

Interpreted(mode) == mode_results[mode] # None
AllInterpreted == \A m \in Modes : Interpreted(m)

\* success of record i under an interpreted mode
SuccessIn(mode, i) == mode_results[mode][1][i].success
ReasonIn(mode, i) == mode_results[mode][1][i].reason

Records == 1..Len(raw_results)

\* exit code 0 from a proof of concept that ran and did not time out
CleanRun(r) == r.exit_code = 0 /\ r.step3_executed /\ ~r.is_timeout

\* a record none of the three mode-independent rules decides
Undecided(r) == r.git_patch # "" /\ ~(r.exit_code = 0 /\ r.step3_executed) /\ ~r.is_timeout

\* C1 as stated: for every record, whatever its patch text, strict succeeds
\* if and only if exit_code = 0, step3_executed and not is_timeout.
C1_StrictIffAnyPatch ==
    Interpreted("strict") =>
        \A i \in Records : SuccessIn("strict", i) <=> CleanRun(raw_results[i])

\* C1 (amended): for every record with a non-empty patch, strict succeeds if
\* and only if exit_code = 0, step3_executed and not is_timeout; a record with
\* an empty patch fails whatever its other fields.
C1_StrictIff ==
    Interpreted("strict") =>
        \A i \in Records :
            /\ raw_results[i].git_patch # "" =>
                   (SuccessIn("strict", i) <=> CleanRun(raw_results[i]))
            /\ raw_results[i].git_patch = "" => ~SuccessIn("strict", i)

C1_Witness ==
    /\ Interpreted("strict")
    /\ raw_results[1].git_patch # ""
    /\ CleanRun(raw_results[1])
    /\ SuccessIn("strict", 1)

\* C2: a record with is_timeout = TRUE fails in every mode, also when its exit
\* code equals the expected one, step 3 ran and no report was extracted.
C2_TimeoutFails ==
    \A m \in Modes : Interpreted(m) =>
        \A i \in Records : raw_results[i].is_timeout => ~SuccessIn(m, i)

C2_Witness ==
    /\ AllInterpreted
    /\ raw_results[1].git_patch # ""
    /\ raw_results[1].is_timeout
    /\ raw_results[1].exit_code = 124
    /\ raw_results[1].expected_exit_code = Some(124)
    /\ raw_results[1].step3_executed
    /\ raw_results[1].sanitizer_report = None
    /\ \A m \in Modes : ~SuccessIn(m, 1)

\* C4: a record with a non-empty patch, exit_code = 0, step3_executed and not
\* is_timeout succeeds in strict, medium and generous mode, whatever its
\* expected exit code and its sanitizer report.
C4_CleanRunSucceeds ==
    \A m \in Modes : Interpreted(m) =>
        \A i \in Records :
            (raw_results[i].git_patch # "" /\ CleanRun(raw_results[i]))
                => (SuccessIn(m, i) /\ ReasonIn(m, i) = SuccessReason)

C4_Witness ==
    /\ AllInterpreted
    /\ raw_results[1].git_patch # ""
    /\ CleanRun(raw_results[1])
    /\ raw_results[1].expected_exit_code = Some(7)
    /\ raw_results[1].sanitizer_report # None
    /\ \A m \in Modes : SuccessIn(m, 1)

\* the record of scenario B: a non-zero exit code the dataset expects
ExpectedNonZero(r) ==
    /\ r.git_patch # ""
    /\ r.exit_code # 0
    /\ r.expected_exit_code = Some(r.exit_code)
    /\ r.step3_executed
    /\ ~r.is_timeout
    /\ r.sanitizer_report = None

\* C5 as stated: such a record fails under strict, succeeds under medium and
\* fails under generous.
C5_MediumOnly ==
    AllInterpreted =>
        \A i \in Records : ExpectedNonZero(raw_results[i]) =>
            (~SuccessIn("strict", i) /\ SuccessIn("medium", i)
             /\ ~SuccessIn("generous", i))

\* C5 (amended): such a record fails under strict, succeeds under medium and
\* succeeds under generous too, step 3 having run without a report.
C5_MediumAndGenerous ==
    AllInterpreted =>
        \A i \in Records : ExpectedNonZero(raw_results[i]) =>
            (~SuccessIn("strict", i) /\ SuccessIn("medium", i)
             /\ SuccessIn("generous", i))

C5_Witness ==
    /\ AllInterpreted
    /\ ExpectedNonZero(raw_results[1])
    /\ raw_results[1].exit_code = 7
    /\ ~SuccessIn("strict", 1)
    /\ SuccessIn("medium", 1)
    /\ SuccessIn("generous", 1)

\* C6: for a record no mode-independent rule decides, generous succeeds if and
\* only if step 3 ran and no report was extracted; exit code 139 with step 3
\* run, no report and another or no expected exit code fails under strict and
\* medium and succeeds under generous.
C6_GenerousIff ==
    /\ Interpreted("generous") =>
           \A i \in Records : Undecided(raw_results[i]) =>
               (SuccessIn("generous", i) <=>
                    (raw_results[i].step3_executed
                     /\ raw_results[i].sanitizer_report = None))
    /\ AllInterpreted =>
           \A i \in Records :
               (/\ Undecided(raw_results[i])
                /\ raw_results[i].exit_code = 139
                /\ raw_results[i].step3_executed
                /\ raw_results[i].sanitizer_report = None
                /\ raw_results[i].expected_exit_code # Some(139))
               => (~SuccessIn("strict", i) /\ ~SuccessIn("medium", i)
                   /\ SuccessIn("generous", i))

C6_Witness ==
    /\ AllInterpreted
    /\ Undecided(raw_results[1])
    /\ raw_results[1].exit_code = 139
    /\ raw_results[1].step3_executed
    /\ raw_results[1].sanitizer_report = None
    /\ raw_results[1].expected_exit_code = Some(7)
    /\ ~SuccessIn("strict", 1)
    /\ ~SuccessIn("medium", 1)
    /\ SuccessIn("generous", 1)

\* C7: for a record no mode-independent rule decides, medium succeeds if and
\* only if the expected exit code is present, equals the exit code, and step 3
\* ran; the same record with or without a report gets the same medium verdict.
C7_MediumIff ==
    Interpreted("medium") =>
        \A i \in Records :
            /\ Undecided(raw_results[i]) =>
                   (SuccessIn("medium", i) <=>
                        (/\ raw_results[i].expected_exit_code # None
                         /\ raw_results[i].expected_exit_code[1]
                                = raw_results[i].exit_code
                         /\ raw_results[i].step3_executed))
            /\ \A rep \in InterpReports :
                   InterpretOne([raw_results[i] EXCEPT !.sanitizer_report = rep],
                                "medium").success = SuccessIn("medium", i)

C7_Witness ==
    /\ Interpreted("medium")
    /\ Undecided(raw_results[1])
    /\ raw_results[1].expected_exit_code = Some(7)
    /\ raw_results[1].exit_code = 7
    /\ raw_results[1].step3_executed
    /\ raw_results[1].sanitizer_report # None
    /\ SuccessIn("medium", 1)

\* C8 as stated: success under strict implies success under medium, and
\* success under medium implies success under generous.
C8_Monotone ==
    AllInterpreted =>
        \A i \in Records :
            /\ SuccessIn("strict", i) => SuccessIn("medium", i)
            /\ SuccessIn("medium", i) => SuccessIn("generous", i)

\* C8 (amended): success under strict implies success under medium and under
\* generous; success under medium implies success under generous when no
\* sanitizer report was extracted from the record's logs.
C8_MonotoneWithoutReport ==
    AllInterpreted =>
        \A i \in Records :
            /\ SuccessIn("strict", i) =>
                   (SuccessIn("medium", i) /\ SuccessIn("generous", i))
            /\ (SuccessIn("medium", i) /\ raw_results[i].sanitizer_report = None)
                   => SuccessIn("generous", i)

C8_Witness ==
    /\ AllInterpreted
    /\ ~SuccessIn("strict", 1)
    /\ SuccessIn("medium", 1)
    /\ raw_results[1].sanitizer_report = None
    /\ SuccessIn("generous", 1)

-----------------------------------------------------------------------------
(* Properties of run_evaluation and main, checked under Spec *)

\* the loop has just handled an entry the dataset knows and that has no patch
PatchlessEntry ==
    /\ entry # None
    /\ entry[1].in_dataset
    /\ entry[1].model_patch \in {None, Some("")}

\* C3: for an entry whose model_patch is missing or empty, run_evaluation makes
\* no docker call and writes no patch file, and appends the record with the
\* sentinel exit code, step3_executed and is_timeout false and empty logs;
\* every mode then reports failure with the fixed no-patch reason.
C3_NoPatchShortCircuit ==
    /\ PatchlessEntry =>
           /\ calls = <<>>
           /\ containers = {}
           /\ tmp_dirs = {}
           /\ patch_file = None
           /\ Len(raw_results) = idx
           /\ raw_results[idx] =
                  [instance_id |-> InstanceId(idx), git_patch |-> "",
                   exit_code |-> SentinelExitCode, logs |-> <<>>,
                   step3_executed |-> FALSE, is_timeout |-> FALSE,
                   sanitizer_report |-> None,
                   expected_exit_code |-> entry[1].exit_code]
    /\ \A m \in Modes : Interpreted(m) =>
           \A i \in Records : raw_results[i].git_patch = "" =>
               (~SuccessIn(m, i) /\ ReasonIn(m, i) = NoPatchReason)

C3_Witness ==
    /\ pc = "done"
    /\ AllInterpreted
    /\ PatchlessEntry
    /\ entry[1].model_patch = Some("")
    /\ entry[1].exit_code = Some(7)
    /\ Len(raw_results) = 2
    /\ raw_results[1].git_patch # ""
    /\ \A m \in Modes : ~SuccessIn(m, 2) /\ ReasonIn(m, 2) = NoPatchReason

-----------------------------------------------------------------------------
(* Properties of the extractors, checked under SpecExtract *)

\* the first start marker and the first end marker of a text, 0 when absent
FirstStart(text, start_pattern) == FirstTok(text, start_pattern)
FirstEnd(text) == FirstTok(text, SANITIZER_END_PATTERN)

\* the first end marker after token i, 0 when there is none
EndAfter(text, i) ==
    LET later == {j \in (i + 1)..Len(text) : text[j] \in SANITIZER_END_PATTERN}
    IN  IF later = {} THEN 0 ELSE CHOOSE j \in later : \A k \in later : j <= k

\* the text from token i through token j
Between(text, i, j) == Flatten(SubSeq(text, i, j))

\* a start marker with an end marker somewhere after it
HasBoundedReport(text, start_pattern) ==
    /\ FirstStart(text, start_pattern) > 0
    /\ EndAfter(text, FirstStart(text, start_pattern)) > 0

\* the first end marker of the text lies after its first start marker
FirstEndAfterFirstStart(text, start_pattern) ==
    /\ FirstStart(text, start_pattern) > 0
    /\ FirstEnd(text) > FirstStart(text, start_pattern)

\* C9 as stated: a text with a start marker and an end marker after it gives
\* the substring from the start marker through that end marker, wherever
\* other markers occur.
C9_BoundedAnywhere ==
    ex_pc # "input" =>
        /\ HasBoundedReport(container_output, SANITIZER_START_PATTERN) =>
               report = Some(Between(container_output,
                   FirstStart(container_output, SANITIZER_START_PATTERN),
                   EndAfter(container_output,
                       FirstStart(container_output, SANITIZER_START_PATTERN))))
        /\ HasBoundedReport(container_output, BATCH_SANITIZER_START_PATTERN) =>
               batch_report = Some(Between(container_output,
                   FirstStart(container_output, BATCH_SANITIZER_START_PATTERN),
                   EndAfter(container_output,
                       FirstStart(container_output, BATCH_SANITIZER_START_PATTERN))))

\* C9 (amended): when the first end marker of the text lies after its first
\* start marker, the result is the substring from the first start marker
\* through the last character of the first end marker, whatever markers
\* follow; an end marker before the first start marker disables the match.
C9_BoundedFirstMarkers ==
    ex_pc # "input" =>
        /\ FirstEndAfterFirstStart(container_output, SANITIZER_START_PATTERN) =>
               report = Some(Between(container_output,
                   FirstStart(container_output, SANITIZER_START_PATTERN),
                   FirstEnd(container_output)))
        /\ FirstEndAfterFirstStart(container_output, BATCH_SANITIZER_START_PATTERN) =>
               batch_report = Some(Between(container_output,
                   FirstStart(container_output, BATCH_SANITIZER_START_PATTERN),
                   FirstEnd(container_output)))

C9_Witness ==
    /\ ex_pc = "extracted"
    /\ container_output = << TokStart, TokEnd, TokEnd >>
    /\ report = Some(TokStart \o TokEnd)
    /\ batch_report = Some(TokStart \o TokEnd)

\* C10 as stated: unrelated text appended to a text that holds a start marker
\* followed later by an end marker leaves the result of both extractors as
\* it was.
C10_AppendAnyBounded ==
    ex_pc = "appended" =>
        /\ HasBoundedReport(container_output, SANITIZER_START_PATTERN) =>
               report_appended = report
        /\ HasBoundedReport(container_output, BATCH_SANITIZER_START_PATTERN) =>
               batch_report_appended = batch_report

\* C10 (amended): unrelated text appended to a text whose first end marker
\* lies after its first start marker leaves the result of both extractors as
\* it was.
C10_AppendFirstMarkers ==
    ex_pc = "appended" =>
        /\ FirstEndAfterFirstStart(container_output, SANITIZER_START_PATTERN) =>
               report_appended = report
        /\ FirstEndAfterFirstStart(container_output, BATCH_SANITIZER_START_PATTERN) =>
               batch_report_appended = batch_report

C10_Witness ==
    /\ ex_pc = "appended"
    /\ container_output = << TokFill, TokStart, TokEnd >>
    /\ trailing = << TokFrame >>
    /\ report_appended = Some(TokStart \o TokEnd)
    /\ batch_report_appended = Some(TokStart \o TokEnd)

\* the last stack-frame token after token i, 0 when there is none
LastFrameAfter(text, i) ==
    LET frames == {j \in (i + 1)..Len(text) : text[j] \in STACK_TRACE_END_PATTERN}
    IN  IF frames = {} THEN 0 ELSE CHOOSE j \in frames : \A k \in frames : j >= k

\* the token that ends the line of token i: the first newline after it, or the
\* last token of the text when no newline follows
LineEndTok(text, i) ==
    LET nls == {j \in (i + 1)..Len(text) : text[j] = TokNL}
    IN  IF nls = {} THEN Len(text) ELSE CHOOSE j \in nls : \A k \in nls : j <= k

\* a start marker, no end marker, and a stack frame after the start marker
Unterminated(text, start_pattern) ==
    /\ FirstStart(text, start_pattern) > 0
    /\ FirstEnd(text) = 0
    /\ LastFrameAfter(text, FirstStart(text, start_pattern)) > 0

\* C11: for a text with a start marker, no end marker and a stack-frame line
\* after the start marker, the extractor of the evaluation pipeline
\* (run_eval.py) returns the text from the start marker through the end of
\* the last frame line with its newline, or through the end of the text when
\* no newline follows.
C11_UnterminatedTier ==
    ex_pc # "input" =>
        (Unterminated(container_output, SANITIZER_START_PATTERN) =>
            report = Some(Between(container_output,
                FirstStart(container_output, SANITIZER_START_PATTERN),
                LineEndTok(container_output,
                    LastFrameAfter(container_output,
                        FirstStart(container_output, SANITIZER_START_PATTERN))))))

-----------------------------------------------------------------------------
(* Properties of the docker calls of run_evaluation, checked under Spec *)

\* C12: an exception of the docker client at any step of an instance's run
\* (pull, create, start, wait, logs, decoding, remove) does not leave
\* run_evaluation: the run never fails after a docker call was made for the
\* instance at hand.
C12_SandboxErrorsRecorded ==
    pc = "failed" => calls = <<>>

\* C13: every container run_evaluation created is removed before it moves on
\* to the next instance, returns, or is left by an exception.
C13_ContainerRemoved ==
    pc \in {"loop", "interpret", "done", "failed"} => containers = {}

\* the place of a line in the output of the script, 0 when it is not there
Pos(out, line) ==
    LET hits == {i \in 1..Len(out) : out[i] = line}
    IN  IF hits = {} THEN 0 ELSE CHOOSE i \in hits : \A j \in hits : i <= j

StageStarted(out, k) == Pos(out, StepBanner(k)) > 0
StagePassed(out, k) == Pos(out, SuccessLine(k)) > 0

\* the exit codes a stage can leave
StageExitCodes == PatchExitCodes \cup BuildExitCodes \cup PocExitCodes

\* the script has run to its exit
ScriptExited == pc \in {"logs", "remove", "record"} /\ loc.exit_result # None

\* C14: the stages run in the order apply, build, reproduce; stage 2 starts
\* only after stage 1 exited 0 and stage 3 only after stage 2 exited 0; a
\* non-zero exit of stage 1 or 2 ends the script at once with that exit code;
\* when stage 3 runs, the exit code of the script is that of stage 3.
C14_StagesInOrder ==
    ScriptExited =>
        LET out == loc.output
            code == loc.exit_result[1]
        IN  /\ Pos(out, StepBanner(1)) = 1
            /\ StageStarted(out, 2) =>
                   /\ StagePassed(out, 1)
                   /\ Pos(out, SuccessLine(1)) < Pos(out, StepBanner(2))
            /\ StageStarted(out, 3) =>
                   /\ StageStarted(out, 2)
                   /\ StagePassed(out, 2)
                   /\ Pos(out, SuccessLine(2)) < Pos(out, StepBanner(3))
                   /\ Pos(out, PocExitLine(code)) > Pos(out, StepBanner(3))
            /\ \A k \in {1, 2} : \A ret \in StageExitCodes :
                   Pos(out, FailLine(k, ret)) > 0 =>
                       /\ ret # 0
                       /\ code = ret
                       /\ Pos(out, FailLine(k, ret)) = Len(out)
                       /\ \A j \in (k + 1)..3 : ~StageStarted(out, j)
            /\ \A k \in {1, 2} :
                   (StageStarted(out, k) /\ ~StageStarted(out, k + 1)) =>
                       \E ret \in StageExitCodes \ {0} :
                           Pos(out, FailLine(k, ret)) > 0

C14_Witness ==
    /\ pc = "logs"
    /\ loc.exit_result = Some(1)
    /\ loc.output = << StepBanner(1), SuccessLine(1), StepBanner(2), FailLine(2, 1) >>

\* the docker calls of one instance when the image is there, and when it has
\* to be pulled
CallsImagePresent == << "create", "start", "wait", "logs", "remove" >>
CallsImagePulled ==
    << "create", "pull", "create", "start", "wait", "logs", "remove" >>

CallsInOrder ==
    \/ \E n \in 0..Len(CallsImagePresent) : calls = SubSeq(CallsImagePresent, 1, n)
    \/ \E n \in 0..Len(CallsImagePulled) : calls = SubSeq(CallsImagePulled, 1, n)

\* a failed record: the sentinel, both flags false, the error text as logs
InfraFailure(rec, kinds) ==
    /\ rec.exit_code = SentinelExitCode
    /\ ~rec.step3_executed
    /\ ~rec.is_timeout
    /\ rec.sanitizer_report = None
    /\ Len(rec.logs) = 1
    /\ \E kind \in kinds : Contains(rec.logs[1], ExcText(kind))

\* the instance at hand ended at the pull or at the second create
EndedAtPull == pc = "loop" /\ calls = << "create", "pull" >>
EndedAtRetry == pc = "loop" /\ calls = << "create", "pull", "create" >>

\* C15: for one instance there is at most one pull and there are at most two
\* creates; the pull follows a first create that reported the image as not
\* found, the second create follows a successful pull, and a failure of the
\* pull or of the second create ends the instance with a failed record and
\* no further attempt.
C15_OnePullOneRetry ==
    /\ [](/\ CallsInOrder
          /\ EndedAtPull =>
                 /\ Len(raw_results) = idx
                 /\ raw_results[idx].instance_id = CurId
                 /\ InfraFailure(raw_results[idx], {"PullError"})
          /\ EndedAtRetry =>
                 /\ Len(raw_results) = idx
                 /\ raw_results[idx].instance_id = CurId
                 /\ InfraFailure(raw_results[idx], {"APIError"}))
    /\ [][/\ calls' = Append(calls, "pull") =>
                 (pc = "pull" /\ calls = << "create" >>)
          /\ calls' = Append(calls, "create") =>
                 \/ (pc = "create" /\ calls = <<>>)
                 \/ (pc = "recreate" /\ calls = << "create", "pull" >>
                     /\ pc' \in {"start", "loop"})
          /\ (pc \in {"pull", "recreate"} /\ pc' # pc /\ pc' \notin {"recreate", "start"})
                 => (pc' = "loop" /\ Len(raw_results') = Len(raw_results) + 1)]_vars

C15_Witness ==
    /\ EndedAtRetry
    /\ idx = 2
    /\ Len(raw_results) = 2
    /\ InfraFailure(raw_results[2], {"APIError"})
    /\ raw_results[2].git_patch # ""

\* C16: the log of a failed record names a pull failure only when the pull
\* itself failed, and names a container-create failure whenever a create call
\* failed, the second create after a successful pull included.
C16_DistinctReasons ==
    /\ EndedAtPull =>
           StartsWith(raw_results[idx].logs[1], "Failed to pull image")
    /\ (pc = "loop" /\ calls = << "create" >>) =>
           StartsWith(raw_results[idx].logs[1], "Failed to create container")
    /\ EndedAtRetry =>
           StartsWith(raw_results[idx].logs[1], "Failed to create container")

\* stage k of the run behind the record exited with a non-zero code
StageFailed(r, k) ==
    \E ret \in StageExitCodes \ {0} : Pos(r.logs, FailLine(k, ret)) > 0

\* C17: when a stage of the run exited non-zero, the reason of the failed
\* outcome names that stage in every mode; an apply or build stage that
\* exited with 124 or 137 is not reported as a failure of the Run PoC stage.
C17_ReasonNamesStage ==
    \A m \in Modes : Interpreted(m) =>
        \A i \in Records : \A k \in 1..3 :
            (StageFailed(raw_results[i], k) /\ ~SuccessIn(m, i)) =>
                /\ Contains(ReasonIn(m, i), StageName[k])
                /\ k # 3 => ~Contains(ReasonIn(m, i), StageName[3])

-----------------------------------------------------------------------------
(* The indicator fallback of the extractors, checked under SpecExtract *)

\* the window of the claim, on the text as one string: 1000 characters each
\* side of the first occurrence of the first listed indicator that occurs
WindowOf(s, indicators) ==
    LET present == {k \in 1..Len(indicators) : FindIn(s, indicators[k]) >= 0}
    IN  IF present = {} THEN None
        ELSE LET k == CHOOSE c \in present : \A d \in present : c <= d
                 i == FindIn(s, indicators[k])
             IN  Some(Slice(s, Max(0, i - 1000), Min(Len(s), i + 1000)))

NoMarker(text, start_pattern) ==
    FirstStart(text, start_pattern) = 0 /\ FirstEnd(text) = 0

\* C18: when neither marker pattern matches the text, the result is the
\* window text[max(0, i-1000) : min(len(text), i+1000)] around the first
\* occurrence i of the first indicator of the list that occurs in the text,
\* and nothing when no indicator occurs.
C18_IndicatorWindow ==
    (ex_pc = "extracted" /\ trailing = <<>>) =>
        /\ NoMarker(container_output, SANITIZER_START_PATTERN) =>
               report = WindowOf(Flatten(container_output), SANITIZER_INDICATORS)
        /\ NoMarker(container_output, BATCH_SANITIZER_START_PATTERN) =>
               batch_report =
                   WindowOf(Flatten(container_output), SANITIZER_ERROR_PATTERNS)

\* a later-listed indicator (LeakSanitizer) occurs first in the text and lies
\* outside the window around the first-listed one
C18_Witness ==
    /\ ex_pc = "extracted"
    /\ container_output = << TokLeak, TokPad, TokAddr >>
    /\ report = Some(Slice(Flatten(container_output), Len(TokLeak) + 7,
                           Len(Flatten(container_output))))
    /\ batch_report = Some(Slice(Flatten(container_output), Len(TokLeak),
                                 Len(Flatten(container_output))))

-----------------------------------------------------------------------------
(* The patch text of run_evaluation, checked under Spec *)

\* C19: the patch text stored in a record and written to the patch file
\* holds no "\r\n", so replacing "\r\n" by "\n" once more changes nothing.
C19_PatchNormalised ==
    /\ \A i \in Records :
           /\ ~Contains(raw_results[i].git_patch, "\r\n")
           /\ ReplaceCRLF(raw_results[i].git_patch) = raw_results[i].git_patch
    /\ patch_file # None =>
           /\ ~Contains(patch_file[1], "\r\n")
           /\ ReplaceCRLF(patch_file[1]) = patch_file[1]

-----------------------------------------------------------------------------
(* Failed runs never succeed, checked under SpecInterp *)

\* the shape of the records of the no-patch, pull-failure and create-failure
\* paths: the sentinel exit code and both flags false
NeverRan(r) ==
    r.exit_code = SentinelExitCode /\ ~r.step3_executed /\ ~r.is_timeout

\* C20: in every mode success implies a non-empty patch, step3_executed and
\* not is_timeout; so a record of the no-patch, pull-failure or
\* create-failure path fails in every mode, whatever expected exit code the
\* dataset gives, -1 included.
C20_SuccessNeedsStep3 ==
    \A m \in Modes : Interpreted(m) =>
        \A i \in Records :
            /\ SuccessIn(m, i) =>
                   /\ raw_results[i].git_patch # ""
                   /\ raw_results[i].step3_executed
                   /\ ~raw_results[i].is_timeout
            /\ NeverRan(raw_results[i]) => ~SuccessIn(m, i)

C20_Witness ==
    /\ AllInterpreted
    /\ NeverRan(raw_results[1])
    /\ raw_results[1].git_patch # ""
    /\ raw_results[1].expected_exit_code = Some(SentinelExitCode)
    /\ raw_results[1].sanitizer_report = None
    /\ \A m \in Modes : ~SuccessIn(m, 1)

-----------------------------------------------------------------------------
(* interpret_results keeps the records, checked under Spec *)

\* the outcome carries the instance id, patch, exit code and logs of a record
Carries(outcome, r) ==
    /\ outcome.instance_id = r.instance_id
    /\ outcome.git_patch = r.git_patch
    /\ outcome.exit_code = r.exit_code
    /\ outcome.logs = r.logs

\* C21: interpret_results returns one outcome per record, in the order of
\* the records, each with the instance id, patch, exit code and logs of its
\* record, and leaves the records as they were; so a mode interpreted after
\* other modes has the result it has when interpreted alone.
C21_OneOutcomePerRecord ==
    /\ [](\A m \in Modes : Interpreted(m) =>
              /\ Len(mode_results[m][1]) = Len(raw_results)
              /\ \A i \in Records : Carries(mode_results[m][1][i], raw_results[i])
              /\ \A i \in Records :
                     << SuccessIn(m, i), ReasonIn(m, i) >> = Verdict(raw_results[i], m))
    /\ [][pc = "interpret" => raw_results' = raw_results]_vars

C21_Witness ==
    /\ pc = "done"
    /\ args_mode = Some("all")
    /\ AllInterpreted
    /\ Len(raw_results) = 2
    /\ raw_results[1].git_patch = ""
    /\ raw_results[2].git_patch # ""
    /\ raw_results[2].step3_executed
    /\ \A m \in Modes : mode_results[m][1][2].instance_id = InstanceId(2)

====
